---- MODULE Spec2Model ----
(***************************************************************************)
(* BCSD point-wise models (src/xsd/pointwise_models/bcsd.py):              *)
(* BcsdBase, BcsdPrecipitation and BcsdTemperature as a state machine.     *)
(*                                                                         *)
(* A time series is a sequence of records [t |-> timestamp, v |-> value],  *)
(* ascending in t.  A timestamp is a month count: t = 12*(year-1) + month. *)
(* A value is an exact rational <<numerator, denominator>>; <<1, 0>> is    *)
(* the not-a-number value of pandas.  A climatology (a pandas Series       *)
(* indexed by Period Key) and the quantile_mappers_ dict are functions     *)
(* from a set of keys.                                                     *)
(***************************************************************************)
EXTENDS Integers, Sequences, FiniteSets

VARIABLES
    cls,        \* the class of the instance: "BcsdPrecipitation" | "BcsdTemperature"
    self,       \* the instance's attributes
    fitted,     \* TRUE once a fit call on this instance has returned
    train,      \* the arguments of the most recent fit call
    last        \* the most recent call: its arguments, locals, exception, return value

vars == <<cls, self, fitted, train, last>>

(***************************************************************************)
(* Bounds of the model.                                                    *)
(***************************************************************************)
MaxYears == 2       \* the series span the years 1..MaxYears
LongYears == 6      \* the series of SpecShift span the years 1..LongYears

(***************************************************************************)
(* Exact rational arithmetic, with NaN.                                    *)
(***************************************************************************)
NaN == <<1, 0>>

IsNaN(a) == a[2] = 0

Abs(n) == IF n < 0 THEN -n ELSE n

RECURSIVE GCD(_, _)
GCD(a, b) == IF b = 0 THEN a ELSE GCD(b, a % b)

Frac(n, d) ==
    IF d = 0 THEN NaN
    ELSE LET g == GCD(Abs(n), Abs(d))
             s == IF d < 0 THEN -1 ELSE 1
         IN  <<(s * n) \div g, (s * d) \div g>>

Num(n) == <<n, 1>>

FAdd(a, b) == IF IsNaN(a) \/ IsNaN(b) THEN NaN
              ELSE Frac(a[1] * b[2] + b[1] * a[2], a[2] * b[2])

FSub(a, b) == IF IsNaN(a) \/ IsNaN(b) THEN NaN
              ELSE Frac(a[1] * b[2] - b[1] * a[2], a[2] * b[2])

FDiv(a, b) == IF IsNaN(a) \/ IsNaN(b) THEN NaN
              ELSE Frac(a[1] * b[2], a[2] * b[1])

\* a <= 0; every comparison with NaN is False
FLeZero(a) == ~IsNaN(a) /\ a[1] <= 0

FLess(a, b) == ~IsNaN(a) /\ ~IsNaN(b) /\ a[1] * b[2] < b[1] * a[2]

RECURSIVE FSum(_)
FSum(s) == IF s = <<>> THEN Num(0) ELSE FAdd(Head(s), FSum(Tail(s)))

Finite(s) == SelectSeq(s, LAMBDA a : ~IsNaN(a))

\* pandas mean(): NaN entries are skipped; NaN when nothing is left
Mean(s) ==
    LET f == Finite(s)
    IN  IF f = <<>> THEN NaN ELSE FDiv(FSum(f), Num(Len(f)))

(***************************************************************************)
(* Series and the pandas operations the code calls on them.                *)
(***************************************************************************)
Values(S) == [i \in 1..Len(S) |-> S[i].v]

Index(S) == [i \in 1..Len(S) |-> S[i].t]

IndexSet(S) == {S[i].t : i \in 1..Len(S)}

\* MONTH_GROUPER = lambda x: x.month
MONTH_GROUPER(t) == ((t - 1) % 12) + 1

Keys(S) == {MONTH_GROUPER(S[i].t) : i \in 1..Len(S)}

RECURSIVE SortedSeq(_)
SortedSeq(K) ==
    IF K = {} THEN <<>>
    ELSE LET m == CHOOSE x \in K : \A y \in K : x <= y
         IN  <<m>> \o SortedSeq(K \ {m})

\* obj.groupby(self.grouper_): the groups in ascending key order, each one the
\* samples of its key in the order of obj
GroupBy(S) ==
    LET ks == SortedSeq(Keys(S))
    IN  [i \in 1..Len(ks) |->
            [key |-> ks[i],
             group |-> SelectSeq(S, LAMBDA r : MONTH_GROUPER(r.t) = ks[i])]]

RECURSIVE Insert(_, _)
Insert(r, S) ==
    IF S = <<>> THEN <<r>>
    ELSE IF r.t < Head(S).t THEN <<r>> \o S
    ELSE <<Head(S)>> \o Insert(r, Tail(S))

\* DataFrame.sort_index()
RECURSIVE sort_index(_)
sort_index(S) ==
    IF S = <<>> THEN <<>> ELSE Insert(Head(S), sort_index(Tail(S)))

\* pd.concat(dfs) of a non-empty list
RECURSIVE concat(_)
concat(dfs) == IF dfs = <<>> THEN <<>> ELSE Head(dfs) \o concat(Tail(dfs))

\* group - scalar
SubScalar(S, c) == [i \in 1..Len(S) |-> [t |-> S[i].t, v |-> FSub(S[i].v, c)]]

ValueAt(S, t) == (CHOOSE i \in 1..Len(S) : S[i].t = t)

\* the value of frame S at label t; NaN when S has no such label
Loc(S, t) == IF t \in IndexSet(S) THEN S[ValueAt(S, t)].v ELSE NaN

\* A - B of two frames: pandas aligns on the union of the indexes, a label
\* missing on one side gives NaN
FrameSub(A, B) ==
    LET ts == SortedSeq(IndexSet(A) \cup IndexSet(B))
    IN  [i \in 1..Len(ts) |-> [t |-> ts[i], v |-> FSub(Loc(A, ts[i]), Loc(B, ts[i]))]]

\* A + B of two frames, aligned in the same way
FrameAdd(A, B) ==
    LET ts == SortedSeq(IndexSet(A) \cup IndexSet(B))
    IN  [i \in 1..Len(ts) |-> [t |-> ts[i], v |-> FAdd(Loc(A, ts[i]), Loc(B, ts[i]))]]

(***************************************************************************)
(* Collaborators from .utils, which is not among the sources: modelled     *)
(* from the interface the specification gives for them.                    *)
(***************************************************************************)
\* ensure_samples_features(obj): obj as a frame of shape (n_samples, 1); the
\* index and the values are those of obj
ensure_samples_features(obj) == obj

MinValue(s) == CHOOSE a \in {s[i] : i \in 1..Len(s)} :
                   \A i \in 1..Len(s) : ~FLess(s[i], a)

\* QuantileMapper(**qm_kwargs).fit(data): fails on non-finite samples;
\* otherwise the fitted state.  qm_kwargs selects the mapping: "identity", or
\* "offset", a monotonic mapping that depends on the fitted sample
QuantileMapper_fit(qm_kwargs, data) ==
    IF \E i \in 1..Len(data) : IsNaN(data[i].v)
    THEN [exc |-> "ValueError: Input contains NaN", ret |-> <<>>]
    ELSE [exc |-> "none",
          ret |-> [kind |-> qm_kwargs, ref |-> MinValue(Values(data))]]

\* mapper.transform(data): a numeric sequence of the same length
QuantileMapper_transform(mapper, data) ==
    [i \in 1..Len(data) |->
        IF mapper.kind = "identity" THEN data[i].v
        ELSE FAdd(data[i].v, mapper.ref)]

(***************************************************************************)
(* BcsdBase                                                                *)
(***************************************************************************)
EmptyDict == <<>>

\* the attributes __init__ sets; _x_climo and _y_climo do not exist yet
BcsdBase_init(qm_kwargs) ==
    [qm_kwargs |-> qm_kwargs,
     quantile_mappers_ |-> EmptyDict,
     attrs |-> {},
     _x_climo |-> EmptyDict,
     _y_climo |-> EmptyDict]

\* d[key] = value
SetItem(d, key, value) ==
    [k \in DOMAIN d \cup {key} |-> IF k = key THEN value ELSE d[k]]

\* self.<name> = value
SetAttr(slf, name, value) ==
    IF name = "_x_climo"
    THEN [slf EXCEPT !._x_climo = value, !.attrs = @ \cup {name}]
    ELSE [slf EXCEPT !._y_climo = value, !.attrs = @ \cup {name}]

\* the loop of _qm_fit_by_group, from groups[i] on: each fitted mapper is stored
\* as soon as it is fitted; an exception leaves the ones stored so far
RECURSIVE qm_fit_loop(_, _, _)
qm_fit_loop(slf, groups, i) ==
    IF i > Len(groups) THEN [self |-> slf, exc |-> "none"]
    ELSE LET data == ensure_samples_features(groups[i].group)
             m == QuantileMapper_fit(slf.qm_kwargs, data)
         IN  IF m.exc # "none" THEN [self |-> slf, exc |-> m.exc]
             ELSE qm_fit_loop(
                      [slf EXCEPT !.quantile_mappers_ =
                                      SetItem(@, groups[i].key, m.ret)],
                      groups, i + 1)

_qm_fit_by_group(slf, groups) == qm_fit_loop(slf, groups, 1)

\* a lookup that fits and stores a mapper for a key the dict does not hold
MapperLookup_setdefault(slf, key, data) ==
    IF key \in DOMAIN slf.quantile_mappers_
    THEN [self |-> slf, exc |-> "none", ret |-> slf.quantile_mappers_[key]]
    ELSE LET m == QuantileMapper_fit(slf.qm_kwargs, data)
         IN  [self |-> [slf EXCEPT !.quantile_mappers_ = SetItem(@, key, m.ret)],
              exc |-> m.exc, ret |-> m.ret]

\* The mapper the transform loop uses for key: self.quantile_mappers_[key]
MapperLookup(slf, key, data) ==
    IF key \in DOMAIN slf.quantile_mappers_
    THEN [self |-> slf, exc |-> "none", ret |-> slf.quantile_mappers_[key]]
    ELSE [self |-> slf, exc |-> "KeyError", ret |-> <<>>]

\* the loop of _qm_transform_by_group, from groups[i] on, dfs collected so far
RECURSIVE qm_transform_loop(_, _, _, _)
qm_transform_loop(slf, groups, i, dfs) ==
    IF i > Len(groups) THEN [self |-> slf, exc |-> "none", ret |-> dfs]
    ELSE LET group == groups[i].group
             data == ensure_samples_features(group)
             m == MapperLookup(slf, groups[i].key, data)
             qmapped == QuantileMapper_transform(m.ret, data)
             df == [j \in 1..Len(group) |-> [t |-> group[j].t, v |-> qmapped[j]]]
         IN  IF m.exc # "none" THEN [self |-> m.self, exc |-> m.exc, ret |-> <<>>]
             ELSE qm_transform_loop(m.self, groups, i + 1, Append(dfs, df))

\* pd.concat(dfs).sort_index(); pd.concat of an empty list raises
ConcatSorted(dfs) ==
    IF dfs = <<>>
    THEN [exc |-> "ValueError: No objects to concatenate", ret |-> <<>>]
    ELSE [exc |-> "none", ret |-> sort_index(concat(dfs))]

_qm_transform_by_group(slf, groups) ==
    LET l == qm_transform_loop(slf, groups, 1, <<>>)
        c == ConcatSorted(l.ret)
    IN  IF l.exc # "none" THEN l
        ELSE [self |-> l.self, exc |-> c.exc, ret |-> c.ret]

\* a lookup that imputes 0 for a key the climatology does not hold
ClimatologyLoc_impute(climatology, key) ==
    IF key \in DOMAIN climatology
    THEN [exc |-> "none", ret |-> climatology[key]]
    ELSE [exc |-> "none", ret |-> Num(0)]

\* climatology.loc[key]
ClimatologyLoc(climatology, key) ==
    IF key \in DOMAIN climatology
    THEN [exc |-> "none", ret |-> climatology[key]]
    ELSE [exc |-> "KeyError", ret |-> NaN]

RECURSIVE remove_climatology_loop(_, _, _, _)
remove_climatology_loop(groups, climatology, i, dfs) ==
    IF i > Len(groups) THEN [exc |-> "none", ret |-> dfs]
    ELSE LET c == ClimatologyLoc(climatology, groups[i].key)
         IN  IF c.exc # "none" THEN [exc |-> c.exc, ret |-> <<>>]
             ELSE remove_climatology_loop(
                      groups, climatology, i + 1,
                      Append(dfs, SubScalar(groups[i].group, c.ret)))

_remove_climatology(obj, climatology) ==
    LET l == remove_climatology_loop(GroupBy(obj), climatology, 1, <<>>)
        out == ConcatSorted(l.ret)
    IN  IF l.exc # "none" THEN l
        ELSE IF out.exc # "none" THEN out
        ELSE IF Len(obj) # Len(out.ret)
             THEN [exc |-> "AssertionError", ret |-> <<>>]
        ELSE out

\* groups.mean(): the climatology, one mean per Period Key
GroupMean(S) ==
    [k \in Keys(S) |-> Mean(Values(SelectSeq(S, LAMBDA r : MONTH_GROUPER(r.t) = k)))]

(***************************************************************************)
(* What a call leaves behind: the attributes (self), the exception (exc,   *)
(* "none" when the call returned), the return value (ret) and the locals   *)
(* of predict that were assigned before it ended.                          *)
(***************************************************************************)
NoLocals == [X_rolling_mean |-> <<>>, X_shift |-> <<>>, Xqm |-> <<>>]

Raise(slf, exc, locals) ==
    [self |-> slf, exc |-> exc, ret |-> <<>>, locals |-> locals]

Return(slf, ret, locals) ==
    [self |-> slf, exc |-> "none", ret |-> ret, locals |-> locals]

(***************************************************************************)
(* BcsdPrecipitation                                                       *)
(***************************************************************************)
\* Series.min(): NaN entries are skipped; NaN when nothing is left
ClimatologyMin(climo) ==
    LET vs == {climo[k] : k \in DOMAIN climo} \ {NaN}
    IN  IF vs = {} THEN NaN
        ELSE CHOOSE a \in vs : \A b \in vs : ~FLess(b, a)

\* the check written with < in place of <=
InvalidClimatology_strict(climo) ==
    ~IsNaN(ClimatologyMin(climo)) /\ ClimatologyMin(climo)[1] < 0

\* self._y_climo.min() <= 0
InvalidClimatology(climo) == FLeZero(ClimatologyMin(climo))

\* fit does not read X; it returns the instance
BcsdPrecipitation_fit(slf, y) ==
    LET y_groups == GroupBy(y)
        s1 == SetAttr(slf, "_y_climo", GroupMean(y))
        q == _qm_fit_by_group(s1, y_groups)
    IN  IF InvalidClimatology(s1._y_climo)
        THEN Raise(s1, "ValueError: Invalid value in target climatology", NoLocals)
        ELSE IF q.exc # "none" THEN Raise(q.self, q.exc, NoLocals)
        ELSE Return(q.self, <<"self">>, NoLocals)

\* Xqm.groupby(self.grouper_) / self._y_climo: pandas defines no division of
\* a DataFrameGroupBy by a Series, so the expression raises for every pair of
\* operands (predict of BcsdTemperature notes of the same expression with -
\* that it is not working and calls _remove_climatology instead)
GroupByDiv(Xqm, climo) == [exc |-> "TypeError", ret |-> <<>>]

BcsdPrecipitation_predict(slf, X) ==
    LET X0 == ensure_samples_features(X)
        q == _qm_transform_by_group(slf, GroupBy(X0))
        loc == [NoLocals EXCEPT !.Xqm = q.ret]
        d == GroupByDiv(q.ret, q.self._y_climo)
    IN  IF q.exc # "none" THEN Raise(q.self, q.exc, NoLocals)
        ELSE IF "_y_climo" \notin q.self.attrs
             THEN Raise(q.self, "AttributeError", loc)
        ELSE IF d.exc # "none" THEN Raise(q.self, d.exc, loc)
        ELSE Return(q.self, d.ret, loc)

(***************************************************************************)
(* BcsdTemperature                                                         *)
(***************************************************************************)
BcsdTemperature_fit(slf, X, y) ==
    LET s1 == SetAttr(slf, "_x_climo", GroupMean(X))
        y_groups == GroupBy(y)
        s2 == SetAttr(s1, "_y_climo", GroupMean(y))
        q == _qm_fit_by_group(s2, y_groups)
    IN  IF q.exc # "none" THEN Raise(q.self, q.exc, NoLocals)
        ELSE Return(q.self, <<"self">>, NoLocals)

\* x.rolling(9, center=True, min_periods=1)
Window == 9

Max(a, b) == IF a > b THEN a ELSE b

Min(a, b) == IF a < b THEN a ELSE b

\* a trailing window (center=False): x[i] and the samples before it
WindowAt_trailing(x, i) == SubSeq(Values(x), Max(1, i - (Window - 1)), i)

\* the samples of x the window centred on x[i] covers
WindowAt(x, i) ==
    SubSeq(Values(x), Max(1, i - (Window - 1) \div 2),
                      Min(Len(x), i + (Window - 1) \div 2))

rolling_func(x) ==
    [i \in 1..Len(x) |-> [t |-> x[i].t, v |-> Mean(WindowAt(x, i))]]

\* X.groupby(self.grouper_).apply(rolling_func): rolling_func on each group;
\* the like-indexed pieces are put together under the index of X
GroupApplyRolling(X) ==
    LET gs == GroupBy(X)
        rolled == concat([i \in 1..Len(gs) |-> rolling_func(gs[i].group)])
    IN  [i \in 1..Len(X) |-> rolled[ValueAt(rolled, X[i].t)]]

\* the shift is not added back
RestoreShift_forgotten(Xqm, X_shift) == Xqm

\* Xqm + X_shift
RestoreShift(Xqm, X_shift) == FrameAdd(Xqm, X_shift)

BcsdTemperature_predict(slf, X) ==
    LET X0 == ensure_samples_features(X)
        X_rolling_mean == GroupApplyRolling(X0)
        l1 == [NoLocals EXCEPT !.X_rolling_mean = X_rolling_mean]
        sh == _remove_climatology(X_rolling_mean, slf._x_climo)
        X_shift == sh.ret
        l2 == [l1 EXCEPT !.X_shift = X_shift]
        X_no_shift == FrameSub(X0, X_shift)
        q == _qm_transform_by_group(slf, GroupBy(X_no_shift))
        Xqm == q.ret
        l3 == [l2 EXCEPT !.Xqm = Xqm]
        X_qm_with_shift == RestoreShift(Xqm, X_shift)
        out == _remove_climatology(X_qm_with_shift, q.self._y_climo)
    IN  IF "_x_climo" \notin slf.attrs THEN Raise(slf, "AttributeError", l1)
        ELSE IF sh.exc # "none" THEN Raise(slf, sh.exc, l1)
        ELSE IF q.exc # "none" THEN Raise(q.self, q.exc, l2)
        ELSE IF "_y_climo" \notin q.self.attrs
             THEN Raise(q.self, "AttributeError", l3)
        ELSE IF out.exc # "none" THEN Raise(q.self, out.exc, l3)
        ELSE Return(q.self, out.ret, l3)

(***************************************************************************)
(* The series given to fit and predict: the months K of the years 1..n,    *)
(* every sample of one month with the same value.                          *)
(***************************************************************************)
Timestamp(yr, m) == 12 * (yr - 1) + m

Months == {1, 2}

Indexes ==
    {{Timestamp(yr, m) : yr \in 1..n, m \in K} :
        n \in 0..MaxYears, K \in SUBSET Months}

MkSeries(I, f) ==
    LET ts == SortedSeq(I)
    IN  [i \in 1..Len(ts) |-> [t |-> ts[i], v |-> f[MONTH_GROUPER(ts[i])]]]

SeriesOver(I, V) ==
    {MkSeries(I, f) : f \in [{MONTH_GROUPER(t) : t \in I} -> V]}

XVals == {Num(0), Num(1)}

TrainVals == {Num(1)}

YVals == {Num(0), Num(1), NaN}

QmKwargs == {"identity", "offset"}

PredictInputs == UNION {SeriesOver(I, XVals) : I \in Indexes}

FitTargets == UNION {SeriesOver(I, YVals) : I \in Indexes}

\* X and y of one fit call share their index
FitInputs ==
    UNION {SeriesOver(I, TrainVals) \X SeriesOver(I, YVals) : I \in Indexes}

(***************************************************************************)
(* The state machine.                                                      *)
(***************************************************************************)
Call(op, X, y, r) ==
    [op |-> op, X |-> X, y |-> y, exc |-> r.exc, ret |-> r.ret, locals |-> r.locals]

NoCall ==
    [op |-> "__init__", X |-> <<>>, y |-> <<>>, exc |-> "none", ret |-> <<>>,
     locals |-> NoLocals]

Init ==
    /\ cls \in {"BcsdPrecipitation", "BcsdTemperature"}
    /\ self = BcsdBase_init("offset")     \* the mapping that depends on the fit
    /\ fitted = FALSE
    /\ train = [X |-> <<>>, y |-> <<>>]
    /\ last = NoCall

FitPrecipitation ==
    /\ cls = "BcsdPrecipitation"
    /\ \E y \in FitTargets :
          LET r == BcsdPrecipitation_fit(self, y)
          IN  /\ self' = r.self
              /\ fitted' = (fitted \/ r.exc = "none")
              /\ train' = [X |-> <<>>, y |-> y]
              /\ last' = Call("fit", <<>>, y, r)
    /\ UNCHANGED cls

FitTemperature ==
    /\ cls = "BcsdTemperature"
    /\ \E in \in FitInputs :
          LET r == BcsdTemperature_fit(self, in[1], in[2])
          IN  /\ self' = r.self
              /\ fitted' = (fitted \/ r.exc = "none")
              /\ train' = [X |-> in[1], y |-> in[2]]
              /\ last' = Call("fit", in[1], in[2], r)
    /\ UNCHANGED cls

PredictPrecipitation ==
    /\ cls = "BcsdPrecipitation"
    /\ \E X \in PredictInputs :
          LET r == BcsdPrecipitation_predict(self, X)
          IN  /\ self' = r.self
              /\ last' = Call("predict", X, <<>>, r)
    /\ UNCHANGED <<cls, fitted, train>>

PredictTemperature ==
    /\ cls = "BcsdTemperature"
    /\ \E X \in PredictInputs :
          LET r == BcsdTemperature_predict(self, X)
          IN  /\ self' = r.self
              /\ last' = Call("predict", X, <<>>, r)
    /\ UNCHANGED <<cls, fitted, train>>

Next ==
    \/ FitPrecipitation
    \/ FitTemperature
    \/ PredictPrecipitation
    \/ PredictTemperature

Spec == Init /\ [][Next]_vars

(***************************************************************************)
(* The round trip of a temperature model: constructed, fitted once on a    *)
(* series of up to LongYears years, then one predict.  The training and    *)
(* the new input step from 0 to 1 in some year s (month m lies m - 1       *)
(* higher), so that the 9-sample window leaves samples out and the shift   *)
(* is not zero.                                                            *)
(***************************************************************************)
StepSeries(K, n, s) ==
    LET ts == SortedSeq({Timestamp(yr, m) : yr \in 1..n, m \in K})
    IN  [i \in 1..Len(ts) |->
            [t |-> ts[i],
             v |-> Num((IF (ts[i] - 1) \div 12 + 1 >= s THEN 1 ELSE 0)
                       + MONTH_GROUPER(ts[i]) - 1)]]

ShiftInputs ==
    {StepSeries(K, n, s) :
        K \in (SUBSET Months) \ {{}}, n \in 1..LongYears, s \in 1..LongYears}

TargetVals == {Num(1), Num(2)}

ShiftFitInputs ==
    UNION {{X} \X SeriesOver(IndexSet(X), TargetVals) : X \in ShiftInputs}

InitShift ==
    /\ cls = "BcsdTemperature"
    /\ \E kw \in QmKwargs : self = BcsdBase_init(kw)
    /\ fitted = FALSE
    /\ train = [X |-> <<>>, y |-> <<>>]
    /\ last = NoCall

ShiftFit ==
    /\ last.op = "__init__"
    /\ \E in \in ShiftFitInputs :
          LET r == BcsdTemperature_fit(self, in[1], in[2])
          IN  /\ self' = r.self
              /\ fitted' = (fitted \/ r.exc = "none")
              /\ train' = [X |-> in[1], y |-> in[2]]
              /\ last' = Call("fit", in[1], in[2], r)
    /\ UNCHANGED cls

ShiftPredict ==
    /\ last.op = "fit"
    /\ \E X \in ShiftInputs :
          LET r == BcsdTemperature_predict(self, X)
          IN  /\ self' = r.self
              /\ last' = Call("predict", X, <<>>, r)
    /\ UNCHANGED <<cls, fitted, train>>

NextShift == ShiftFit \/ ShiftPredict

SpecShift == InitShift /\ [][NextShift]_vars

(***************************************************************************)
(* Properties.                                                             *)
(***************************************************************************)
InvalidClimatologyError == "ValueError: Invalid value in target climatology"

EmptyConcatError == "ValueError: No objects to concatenate"

\* the samples of series S whose Period Key is k
GroupValues(S, k) == Values(SelectSeq(S, LAMBDA r : MONTH_GROUPER(r.t) = k))

\* C1: BcsdPrecipitation.fit raises, and returns nothing, when the mean of
\* the target series is <= 0 for some Period Key; when every per-group mean
\* is > 0 the climatology check does not reject the fit.
C1_FitRejectsNonPositiveClimatology ==
    (cls = "BcsdPrecipitation" /\ last.op = "fit") =>
        /\ (\E k \in Keys(last.y) : FLeZero(Mean(GroupValues(last.y, k))))
              => (last.exc = InvalidClimatologyError /\ last.ret = <<>>)
        /\ (\A k \in Keys(last.y) : FLess(Num(0), Mean(GroupValues(last.y, k))))
              => last.exc # InvalidClimatologyError

\* a first fit rejected for a target with one positive and one zero group mean
C1_Witness ==
    /\ cls = "BcsdPrecipitation" /\ last.op = "fit"
    /\ last.exc = InvalidClimatologyError
    /\ \E k \in Keys(last.y) : FLess(Num(0), Mean(GroupValues(last.y, k)))
    /\ \E k \in Keys(last.y) : Mean(GroupValues(last.y, k)) = Num(0)

\* C2: a fit call that fails leaves the attributes of the model (the
\* climatologies and the quantile mappers) as they were before the call.
C2_FailedFitLeavesState ==
    [][(last'.op = "fit" /\ last'.exc # "none") => self' = self]_vars

\* the Period Keys of the series given to the most recent fit call
TrainedKeys ==
    IF cls = "BcsdPrecipitation" THEN Keys(train.y)
    ELSE Keys(train.X) \cap Keys(train.y)

\* C3: predict on a fitted model raises, and returns nothing, when its input
\* holds a timestamp whose Period Key was not among the keys of the series
\* given to fit.
C3_PredictUnseenKeyFails ==
    (last.op = "predict" /\ fitted /\ ~(Keys(last.X) \subseteq TrainedKeys))
        => (last.exc # "none" /\ last.ret = <<>>)

\* a temperature predict that raised KeyError on a key fit had not seen
C3_Witness ==
    /\ cls = "BcsdTemperature" /\ last.op = "predict" /\ fitted
    /\ ~(Keys(last.X) \subseteq TrainedKeys)
    /\ Keys(last.X) \cap TrainedKeys # {}
    /\ last.exc = "KeyError"

\* C4: predict on a model on which no fit call has succeeded ends in an
\* error, for every input series.
C4_PredictUnfitFails ==
    (last.op = "predict" /\ ~fitted) => last.exc # "none"

\* C5: predict leaves the fitted state (quantile mappers, target and
\* training-input climatology) unchanged.
C5_PredictKeepsFittedState ==
    [][last'.op = "predict" => self' = self]_vars

\* a predict that returned a result on a fitted temperature model
C5_Witness ==
    /\ cls = "BcsdTemperature" /\ fitted
    /\ last.op = "predict" /\ last.exc = "none" /\ Len(last.ret) > 1

\* C6: for every input series whose Period Keys are all known, the outputs
\* of _qm_transform_by_group and _remove_climatology have the index of the
\* input, in ascending order, and the shape assertion does not fail.
C6_ReassemblyExact ==
    /\ (cls = "BcsdPrecipitation" /\ last.op = "predict"
        /\ fitted /\ train.y # <<>>
        /\ Keys(last.X) \subseteq DOMAIN self.quantile_mappers_)
          => /\ last.exc \notin {EmptyConcatError, "KeyError"}
             /\ Index(last.locals.Xqm) = Index(last.X)
    /\ (cls = "BcsdTemperature" /\ last.op = "predict"
        /\ fitted /\ train.y # <<>>
        /\ {"_x_climo", "_y_climo"} \subseteq self.attrs
        /\ Keys(last.X) \subseteq DOMAIN self._x_climo
        /\ Keys(last.X) \subseteq DOMAIN self.quantile_mappers_
        /\ Keys(last.X) \subseteq DOMAIN self._y_climo)
          => /\ last.exc = "none"
             /\ Index(last.locals.X_shift) = Index(last.X)
             /\ Index(last.locals.Xqm) = Index(last.X)
             /\ Index(last.ret) = Index(last.X)

\* C9: BcsdPrecipitation.predict on a fitted model returns a series over the
\* timestamps of its input whose value at each timestamp is the
\* quantile-mapped value divided by the target climatology of its Period Key.
C9_PrecipitationRatio ==
    (cls = "BcsdPrecipitation" /\ last.op = "predict" /\ fitted
     /\ last.X # <<>>
     /\ Keys(last.X) \subseteq DOMAIN self.quantile_mappers_
     /\ Keys(last.X) \subseteq DOMAIN self._y_climo)
        => /\ last.exc = "none"
           /\ last.ret =
                [i \in 1..Len(last.X) |->
                    [t |-> last.X[i].t,
                     v |-> FDiv(last.locals.Xqm[i].v,
                                self._y_climo[MONTH_GROUPER(last.X[i].t)])]]

\* C10: once the last fit has succeeded, the Period Keys of the quantile
\* mappers are those of the target climatology of that fit.
C10_MapperKeysAreClimatologyKeys ==
    (last.op = "fit" /\ last.exc = "none" /\ last.y # <<>>)
        => DOMAIN self.quantile_mappers_ = DOMAIN self._y_climo

RECURSIVE SumOver(_, _)
SumOver(S, J) ==
    IF J = {} THEN Num(0)
    ELSE LET j == CHOOSE x \in J : TRUE
         IN  FAdd(S[j].v, SumOver(S, J \ {j}))

\* the samples of S with the Period Key of S[i]
SameKey(S, i) ==
    {j \in 1..Len(S) : MONTH_GROUPER(S[j].t) = MONTH_GROUPER(S[i].t)}

\* the position of S[j] among the samples of its Period Key
RankInGroup(S, j) == Cardinality({k \in SameKey(S, j) : k <= j})

\* the samples of the Period Key of S[i] at most 4 places from S[i] in the group
NearInGroup(S, i) ==
    {j \in SameKey(S, i) : RankInGroup(S, j) - RankInGroup(S, i) \in -4..4}

\* the samples of the whole series at most 4 places from S[i]
NearInSeries(S, i) == {j \in 1..Len(S) : j - i \in -4..4}

MeanOver(S, J) == FDiv(SumOver(S, J), Num(Cardinality(J)))

\* C7 (as stated): the rolling mean of BcsdTemperature.predict is a centred
\* average over 9 consecutive samples of the whole input series, cut at the
\* edges of the series.
C7_RollingOverWholeSeries ==
    (last.op = "predict" /\ last.exc = "none") =>
        /\ Len(last.locals.X_rolling_mean) = Len(last.X)
        /\ \A i \in 1..Len(last.X) :
              last.locals.X_rolling_mean[i] =
                  [t |-> last.X[i].t, v |-> MeanOver(last.X, NearInSeries(last.X, i))]

\* C7 (amended): the rolling mean of BcsdTemperature.predict is, at every
\* timestamp, the centred average over 9 consecutive samples of the
\* timestamp's own Period-Key group, cut at the edges of the group to the
\* samples there are, so that every timestamp gets a defined value.
C7_RollingWithinGroup ==
    last.op = "predict" =>
        /\ Len(last.locals.X_rolling_mean) = Len(last.X)
        /\ \A i \in 1..Len(last.X) :
              /\ last.locals.X_rolling_mean[i] =
                    [t |-> last.X[i].t, v |-> MeanOver(last.X, NearInGroup(last.X, i))]
              /\ ~IsNaN(last.locals.X_rolling_mean[i].v)

\* a predict on a series of two months in which some window is cut at the
\* edge, leaves samples of its group out, and differs from the group's mean
C7_Witness ==
    /\ last.op = "predict" /\ Cardinality(Keys(last.X)) = 2
    /\ \E i \in 1..Len(last.X) :
          /\ Cardinality(NearInGroup(last.X, i)) < 9
          /\ NearInGroup(last.X, i) # SameKey(last.X, i)
          /\ last.locals.X_rolling_mean[i].v # MeanOver(last.X, SameKey(last.X, i))

\* C8: with the identity quantile mapper and the training input as X_new,
\* BcsdTemperature.predict returns, at every timestamp, X_new minus the
\* target climatology of the timestamp's Period Key.
C8_TemperatureRoundTrip ==
    (cls = "BcsdTemperature" /\ last.op = "predict"
     /\ self.qm_kwargs = "identity" /\ last.X = train.X)
        => /\ last.exc = "none"
           /\ last.ret =
                [i \in 1..Len(last.X) |->
                    [t |-> last.X[i].t,
                     v |-> FSub(last.X[i].v,
                                Mean(GroupValues(train.y, MONTH_GROUPER(last.X[i].t))))]]

\* a round trip in which the shift removed and restored is not zero
C8_Witness ==
    /\ cls = "BcsdTemperature" /\ last.op = "predict" /\ last.exc = "none"
    /\ self.qm_kwargs = "identity" /\ last.X = train.X
    /\ \E i \in 1..Len(last.X) : last.locals.X_shift[i].v # Num(0)

====
